---- MODULE Spec2Model ----
(***************************************************************************)
(* Hydrakon CLI: the transform-tree visualizer (capture, parse, build,     *)
(* render) and the exit codes of the commands topics, can0 and tfs.        *)
(*                                                                         *)
(* Frame names are represented by their lexicographic rank: 1 is "A", 2 is *)
(* "B", ...; sorted() on names is the order of the integers.               *)
(***************************************************************************)
EXTENDS Integers, Sequences, FiniteSets, TLC

\* ---------------------------------------------------------------- bounds
MaxNames == 4
MaxEdges == 3
PairNames == 3
PairEdges == 3

Names == 1..MaxNames

\* process_node recurses once per edge of the walked path. CPython raises
\* RecursionError when the call stack passes sys.getrecursionlimit(); a walk
\* deeper than the number of names has entered a cycle and would recurse
\* without end, so the limit is placed just above every acyclic depth.
RecursionLimit == MaxNames + 1

VARIABLES
    \* build_ascii_tree
    connections,     \* the list of (parent, child) pairs
    filter_nodes,    \* None, or the set of configured names
    children_map,    \* defaultdict(set): parent -> set of children
    all_nodes,
    children_nodes,
    roots,
    visual_roots,    \* the list of top-level Tree objects
    console,         \* messages printed by build_ascii_tree, in order
    printed,         \* trees printed by build_ascii_tree, in order
    pc,              \* position inside build_ascii_tree
    pending,         \* further calls of build_ascii_tree still to make
    history,         \* the finished calls: input, roots used, outcome
    \* parse_transforms
    raw_data,        \* the captured text: its chunks between "---" separators
    doc_index,       \* position of the loop over docs_raw
    parsed,          \* the list "connections" parse_transforms builds
    parse_pc,
    \* run_capture, called twice by tfs
    cap_pc,
    proc,            \* the external process: none, running, exited
    signal,          \* the last signal sent to it: none, term, kill
    slept,           \* seconds of time.sleep(duration) elapsed
    duration,
    outs,            \* documents the process has written to its pipe
    capture_no,      \* 1: /tf_static, 2: /tf
    cap_result,      \* the length of the returned text, -1 before the return
    \* the commands topics, can0 and tfs
    command,
    env,             \* what the command finds: config file, ros2, interface
    cli_pc,
    item_index,      \* topics: position of the loop over topic_configs
    success_count,
    total_checks,
    exit_code        \* -1 while the command runs

treeVars == <<connections, filter_nodes, children_map, all_nodes, children_nodes,
              roots, visual_roots, console, printed, pc, pending, history>>
parseVars == <<raw_data, doc_index, parsed, parse_pc>>
capVars == <<cap_pc, proc, signal, slept, duration, outs, capture_no, cap_result>>
cliVars == <<command, env, cli_pc, item_index, success_count, total_checks, exit_code>>

vars == <<treeVars, parseVars, capVars, cliVars>>

\* ------------------------------------------------------------ helpers
Min(S) == CHOOSE x \in S : \A y \in S : x <= y

RECURSIVE sorted(_)
sorted(S) == IF S = {} THEN <<>> ELSE <<Min(S)>> \o sorted(S \ {Min(S)})

SeqRange(s) == {s[i] : i \in DOMAIN s}

\* The two messages build_ascii_tree prints in place of a tree.
MsgNoData == "No TF data found."
MsgNoMatch == "No configured frames found in the active TF tree."

\* filter_nodes: None is is_none = TRUE; otherwise the set is in names.
NoFilter == [is_none |-> TRUE, names |-> {}]
FilterOf(S) == [is_none |-> FALSE, names |-> S]
Filters == {NoFilter} \cup {FilterOf(S) : S \in SUBSET Names}

\* The values process_node returns: None, a Tree, or a list of such values.
NoneVal == [kind |-> "None"]
TreeVal(t) == [kind |-> "Tree", tree |-> t]
ListVal(l) == [kind |-> "list", items |-> l]

\* Python truthiness of a return value: a Tree object is truthy, a list is
\* truthy when it is not empty, None is falsy.
Truthy(v) ==
    CASE v.kind = "Tree" -> TRUE
      [] v.kind = "list" -> Len(v.items) > 0
      [] OTHER -> FALSE

is_visible(node_name) == filter_nodes.is_none \/ node_name \in filter_nodes.names

\* ------------------------------------------------- build_ascii_tree
\* The fold of the edge list into the adjacency structures.
ChildrenMapOf(conns) ==
    [p \in {conns[i][1] : i \in DOMAIN conns} |->
        {conns[i][2] : i \in {j \in DOMAIN conns : conns[j][1] = p}}]

AllNodesOf(conns) ==
    {conns[i][1] : i \in DOMAIN conns} \cup {conns[i][2] : i \in DOMAIN conns}

ChildrenNodesOf(conns) == {conns[i][2] : i \in DOMAIN conns}

RECURSIVE process_node(_, _, _), process_children(_, _, _, _, _)

\* Pruning variant: a hidden node does not recurse into its children.
process_node_pruning(node_name, has_tree, depth) ==
    IF depth > RecursionLimit
    THEN [err |-> TRUE, added |-> <<>>, ret |-> NoneVal]
    ELSE
      LET kids == IF node_name \in DOMAIN children_map /\ is_visible(node_name)
                  THEN sorted(children_map[node_name]) ELSE <<>>
          r == process_children(kids, 1, is_visible(node_name) \/ has_tree, depth,
                   [err |-> FALSE, added |-> <<>>, child_visual_roots |-> <<>>])
          me == [label |-> node_name,
                 style |-> IF has_tree THEN "green" ELSE "cyan",
                 children |-> r.added]
      IN  CASE r.err -> [err |-> TRUE, added |-> <<>>, ret |-> NoneVal]
            [] ~r.err /\ ~has_tree /\ is_visible(node_name) ->
                   [err |-> FALSE, added |-> <<>>, ret |-> TreeVal(me)]
            [] ~r.err /\ ~has_tree /\ ~is_visible(node_name) ->
                   [err |-> FALSE, added |-> <<>>, ret |-> ListVal(r.child_visual_roots)]
            [] ~r.err /\ has_tree /\ is_visible(node_name) ->
                   [err |-> FALSE, added |-> <<me>>, ret |-> NoneVal]
            [] OTHER -> [err |-> FALSE, added |-> r.added, ret |-> NoneVal]

\* process_node(node_name, tree_node): has_tree says tree_node is not None.
\* The result holds the return value (ret), the subtrees the call appended
\* under tree_node with tree_node.add (added), and err when the recursion
\* passed the interpreter's limit (RecursionError unwinds every frame).
process_node(node_name, has_tree, depth) ==
    IF depth > RecursionLimit
    THEN [err |-> TRUE, added |-> <<>>, ret |-> NoneVal]
    ELSE
      LET kids == IF node_name \in DOMAIN children_map
                  THEN sorted(children_map[node_name]) ELSE <<>>
          \* current_tree_node is a Tree when the node is visible or tree_node is
          r == process_children(kids, 1, is_visible(node_name) \/ has_tree, depth,
                   [err |-> FALSE, added |-> <<>>, child_visual_roots |-> <<>>])
          me == [label |-> node_name,
                 style |-> IF has_tree THEN "green" ELSE "cyan",
                 children |-> r.added]
      IN  CASE r.err -> [err |-> TRUE, added |-> <<>>, ret |-> NoneVal]
            [] ~r.err /\ ~has_tree /\ is_visible(node_name) ->
                   [err |-> FALSE, added |-> <<>>, ret |-> TreeVal(me)]
            [] ~r.err /\ ~has_tree /\ ~is_visible(node_name) ->
                   [err |-> FALSE, added |-> <<>>, ret |-> ListVal(r.child_visual_roots)]
            [] ~r.err /\ has_tree /\ is_visible(node_name) ->
                   [err |-> FALSE, added |-> <<me>>, ret |-> NoneVal]
            [] OTHER -> [err |-> FALSE, added |-> r.added, ret |-> NoneVal]

\* The loop "for child in sorted(children_map[node_name])" from position i,
\* acc holding what the earlier iterations added and collected.
process_children(kids, i, cur_has_tree, depth, acc) ==
    IF i > Len(kids) THEN acc
    ELSE LET result == process_node(kids[i], cur_has_tree, depth + 1)
         IN  IF result.err
             THEN [acc EXCEPT !.err = TRUE]
             ELSE process_children(kids, i + 1, cur_has_tree, depth,
                    [err |-> FALSE,
                     added |-> acc.added \o result.added,
                     child_visual_roots |->
                         IF Truthy(result.ret)
                         THEN Append(acc.child_visual_roots, result.ret)
                         ELSE acc.child_visual_roots])

RECURSIVE collect_roots(_), collect_list(_, _)
collect_roots(res) ==
    CASE res.kind = "Tree" -> <<res.tree>>
      [] res.kind = "list" -> collect_list(res.items, 1)
      [] OTHER -> <<>>

collect_list(items, i) ==
    IF i > Len(items) THEN <<>>
    ELSE collect_roots(items[i]) \o collect_list(items, i + 1)

\* The loop "for root in sorted(roots)" from position i of the sorted roots.
RECURSIVE walk_roots(_, _, _)
walk_roots(rs, i, acc) ==
    IF i > Len(rs) THEN [err |-> FALSE, trees |-> acc]
    ELSE LET res == process_node(rs[i], FALSE, 1)
         IN  IF res.err THEN [err |-> TRUE, trees |-> acc]
             ELSE walk_roots(rs, i + 1, acc \o collect_roots(res.ret))

Idle ==
    /\ children_map = <<>> /\ all_nodes = {} /\ children_nodes = {}
    /\ roots = {} /\ visual_roots = <<>> /\ console = <<>> /\ printed = <<>>

TreeIdle ==
    /\ connections = <<>> /\ filter_nodes = NoFilter /\ pc = "idle"
    /\ pending = <<>> /\ history = <<>> /\ Idle

ParseIdle ==
    raw_data = <<>> /\ doc_index = 0 /\ parsed = <<>> /\ parse_pc = "idle"

CapIdle ==
    /\ cap_pc = "idle" /\ proc = "none" /\ signal = "none" /\ slept = 0
    /\ duration = 0 /\ outs = 0 /\ capture_no = 0 /\ cap_result = -1

CliIdle ==
    /\ command = "none" /\ env = <<>> /\ cli_pc = "idle" /\ item_index = 0
    /\ success_count = 0 /\ total_checks = 0 /\ exit_code = -1

\* lines 81-83
NoData ==
    /\ pc = "start"
    /\ connections = <<>>
    /\ console' = Append(console, MsgNoData)
    /\ pc' = "returned"
    /\ UNCHANGED <<connections, filter_nodes, children_map, all_nodes,
                   children_nodes, roots, visual_roots, printed, pending, history>>
    /\ UNCHANGED <<parseVars, capVars, cliVars>>

\* lines 85-96
BuildAdjacency ==
    /\ pc = "start"
    /\ connections # <<>>
    /\ children_map' = ChildrenMapOf(connections)
    /\ all_nodes' = AllNodesOf(connections)
    /\ children_nodes' = ChildrenNodesOf(connections)
    /\ roots' = AllNodesOf(connections) \ ChildrenNodesOf(connections)
    /\ pc' = "roots"
    /\ UNCHANGED <<connections, filter_nodes, visual_roots, console, printed,
                   pending, history>>
    /\ UNCHANGED <<parseVars, capVars, cliVars>>

\* lines 98-100: next(iter(all_nodes)) is the first element in the set's
\* iteration order, which for strings follows their randomized hashes and
\* the insertion history: any element of the set can come first.
FallbackRoot ==
    /\ pc = "roots"
    /\ roots = {}
    /\ all_nodes # {}
    /\ \E n \in all_nodes : roots' = {n}
    /\ pc' = "walk"
    /\ UNCHANGED <<connections, filter_nodes, children_map, all_nodes,
                   children_nodes, visual_roots, console, printed, pending, history>>
    /\ UNCHANGED <<parseVars, capVars, cliVars>>

\* line 98 when roots is not empty
KeepRoots ==
    /\ pc = "roots"
    /\ roots # {}
    /\ pc' = "walk"
    /\ UNCHANGED <<connections, filter_nodes, children_map, all_nodes,
                   children_nodes, roots, visual_roots, console, printed,
                   pending, history>>
    /\ UNCHANGED <<parseVars, capVars, cliVars>>

\* lines 135-146; a RecursionError leaves build_ascii_tree before any print
WalkRoots ==
    /\ pc = "walk"
    /\ LET w == walk_roots(sorted(roots), 1, <<>>)
       IN  IF w.err
           THEN /\ pc' = "raised"
                /\ UNCHANGED visual_roots
           ELSE /\ pc' = "report"
                /\ visual_roots' = w.trees
    /\ UNCHANGED <<connections, filter_nodes, children_map, all_nodes,
                   children_nodes, roots, console, printed, pending, history>>
    /\ UNCHANGED <<parseVars, capVars, cliVars>>

\* lines 148-153
Report ==
    /\ pc = "report"
    /\ console' = IF visual_roots = <<>> /\ ~filter_nodes.is_none
                  THEN Append(console, MsgNoMatch)
                  ELSE console
    /\ printed' = visual_roots
    /\ pc' = "returned"
    /\ UNCHANGED <<connections, filter_nodes, children_map, all_nodes,
                   children_nodes, roots, visual_roots, pending, history>>
    /\ UNCHANGED <<parseVars, capVars, cliVars>>

Outcome ==
    [status |-> pc, console |-> console, printed |-> printed]

\* A second call of build_ascii_tree, on the next pending input, after the
\* first has returned or raised; the finished call is kept in history.
CallAgain ==
    /\ pc \in {"returned", "raised"}
    /\ pending # <<>>
    /\ history' = Append(history,
                     [input |-> connections, roots |-> roots, outcome |-> Outcome])
    /\ connections' = Head(pending)
    /\ pending' = Tail(pending)
    /\ children_map' = <<>> /\ all_nodes' = {} /\ children_nodes' = {}
    /\ roots' = {} /\ visual_roots' = <<>> /\ console' = <<>> /\ printed' = <<>>
    /\ pc' = "start"
    /\ UNCHANGED filter_nodes
    /\ UNCHANGED <<parseVars, capVars, cliVars>>

\* --------------------------------------------------------------- inputs
EdgeOf(e, n) == <<(e \div n) + 1, (e % n) + 1>>

\* Duplicate-free edge lists of length k over n names, in one fixed order:
\* what tfs passes after list(set(connections)).
UniqueLists(k, n) ==
    {[i \in 1..k |-> EdgeOf(s[i], n)] :
        s \in {t \in [1..k -> 0..(n * n - 1)] : \A i \in 1..k : \A j \in 1..k : i < j => t[i] < t[j]}}

\* Every edge list of length k over n names, duplicates and any order.
AnyLists(k, n) ==
    {[i \in 1..k |-> EdgeOf(s[i], n)] : s \in [1..k -> 0..(n * n - 1)]}

Init ==
    /\ connections \in UNION {UniqueLists(k, MaxNames) : k \in 0..MaxEdges}
    /\ filter_nodes \in Filters
    /\ pc = "start"
    /\ pending = <<>>
    /\ history = <<>>
    /\ Idle
    /\ ParseIdle /\ CapIdle /\ CliIdle

Next == NoData \/ BuildAdjacency \/ FallbackRoot \/ KeepRoots \/ WalkRoots \/ Report

Spec == Init /\ [][Next]_vars

\* Every call made and the last one finished.
InitPair ==
    /\ connections \in UNION {AnyLists(k, PairNames) : k \in 0..PairEdges}
    /\ \E second \in UNION {AnyLists(k, PairNames) : k \in 0..PairEdges} :
          /\ SeqRange(second) = SeqRange(connections)
          /\ pending = <<second>>
    /\ filter_nodes \in {NoFilter} \cup {FilterOf(S) : S \in SUBSET (1..PairNames)}
    /\ pc = "start"
    /\ history = <<>>
    /\ Idle
    /\ ParseIdle /\ CapIdle /\ CliIdle

NextPair == Next \/ CallAgain

\* Two calls of build_ascii_tree in a row on two lists of the same edge set.
SpecPair == InitPair /\ [][NextPair]_vars

\* ------------------------------------------------- parse_transforms
\* A chunk of raw_data.split("---") is described by what yaml.safe_load makes
\* of it: blank text, a YAMLError, a document that is no (non-empty) mapping,
\* or a mapping. A mapping's "transforms" is absent, no list, or a list of
\* entries. An entry is a mapping or not; its "header" is absent, no mapping
\* (None, a string), or a mapping; frame_id and child_frame_id are a frame
\* name or 0 for a missing, None or empty value (falsy in "if parent and
\* child").
MaxChunks == 2
MaxEntries == 2
ParseNames == 1..2

Entries ==
    {[is_mapping |-> FALSE, header |-> "absent", frame_id |-> 0, child_frame_id |-> 0]}
    \cup {[is_mapping |-> TRUE, header |-> h, frame_id |-> 0, child_frame_id |-> c] :
            h \in {"absent", "not_mapping"}, c \in {0} \cup ParseNames}
    \cup {[is_mapping |-> TRUE, header |-> "mapping", frame_id |-> f, child_frame_id |-> c] :
            f \in {0} \cup ParseNames, c \in {0} \cup ParseNames}

EntryLists == UNION {[1..k -> Entries] : k \in 0..MaxEntries}

Chunks ==
    {[kind |-> k, transforms |-> "absent", entries |-> <<>>] :
        k \in {"blank", "yaml_error", "not_mapping", "mapping"}}
    \cup {[kind |-> "mapping", transforms |-> "not_list", entries |-> <<>>]}
    \cup {[kind |-> "mapping", transforms |-> "list", entries |-> l] : l \in EntryLists}

\* lines 66-72 inside the try of lines 59-76: the loop over the entries from
\* position i. t.get on an entry that is no mapping, or header.get on a
\* header that is no mapping, raises AttributeError; "except Exception:
\* continue" then leaves the document, keeping what was appended before.
RECURSIVE read_entries(_, _, _)
read_entries(entries, i, acc) ==
    IF i > Len(entries) THEN acc
    ELSE LET t == entries[i]
             parent == IF t.header = "mapping" THEN t.frame_id ELSE 0
         IN  IF ~t.is_mapping \/ t.header = "not_mapping"
             THEN acc
             ELSE read_entries(entries, i + 1,
                    IF parent # 0 /\ t.child_frame_id # 0
                    THEN Append(acc, <<parent, t.child_frame_id>>)
                    ELSE acc)

\* lines 51-54
ParseStart ==
    /\ parse_pc = "start"
    /\ IF raw_data = <<>>
       THEN parse_pc' = "returned" /\ UNCHANGED doc_index
       ELSE parse_pc' = "loop" /\ doc_index' = 1
    /\ UNCHANGED <<raw_data, parsed>>
    /\ UNCHANGED <<treeVars, capVars, cliVars>>

\* lines 57-62 and 73-74: a chunk that is blank, fails to parse, or is no
\* mapping is passed over
SkipChunk ==
    /\ parse_pc = "loop"
    /\ doc_index <= Len(raw_data)
    /\ raw_data[doc_index].kind # "mapping"
    /\ doc_index' = doc_index + 1
    /\ UNCHANGED <<raw_data, parsed, parse_pc>>
    /\ UNCHANGED <<treeVars, capVars, cliVars>>

\* lines 64-72 and 75-76
ReadDocument ==
    /\ parse_pc = "loop"
    /\ doc_index <= Len(raw_data)
    /\ raw_data[doc_index].kind = "mapping"
    /\ parsed' = IF raw_data[doc_index].transforms = "list"
                 THEN read_entries(raw_data[doc_index].entries, 1, parsed)
                 ELSE parsed
    /\ doc_index' = doc_index + 1
    /\ UNCHANGED <<raw_data, parse_pc>>
    /\ UNCHANGED <<treeVars, capVars, cliVars>>

\* line 78
ParseReturn ==
    /\ parse_pc = "loop"
    /\ doc_index > Len(raw_data)
    /\ parse_pc' = "returned"
    /\ UNCHANGED <<raw_data, doc_index, parsed>>
    /\ UNCHANGED <<treeVars, capVars, cliVars>>

InitParse ==
    /\ raw_data \in UNION {[1..k -> Chunks] : k \in 0..MaxChunks}
    /\ doc_index = 0
    /\ parsed = <<>>
    /\ parse_pc = "start"
    /\ TreeIdle /\ CapIdle /\ CliIdle

NextParse == ParseStart \/ SkipChunk \/ ReadDocument \/ ParseReturn

SpecParse == InitParse /\ [][NextParse]_vars

\* ------------------------------------------------------ run_capture
\* tfs calls run_capture twice, for /tf_static and then for /tf. Time is
\* counted in whole seconds; the external process writes documents, and may
\* exit, at any moment while it runs.
MaxDuration == 2
MaxOuts == 2
StaticMinimum == 2
GraceSeconds == 1

\* lines 185-188: static_duration = max(2.0, duration) for the first capture
SleepLength ==
    IF capture_no = 1
    THEN (IF duration > StaticMinimum THEN duration ELSE StaticMinimum)
    ELSE duration

\* lines 22-25: the process is started and the sleep begins
Popen ==
    /\ cap_pc = "start"
    /\ proc' = "running"
    /\ cap_pc' = "sleep"
    /\ slept' = 0
    /\ UNCHANGED <<signal, duration, outs, capture_no, cap_result>>
    /\ UNCHANGED <<treeVars, parseVars, cliVars>>

\* lines 39-44: Popen raises (FileNotFoundError or another exception) and
\* run_capture returns ""
PopenRaises ==
    /\ cap_pc = "start"
    /\ cap_result' = 0
    /\ cap_pc' = "returned"
    /\ UNCHANGED <<proc, signal, slept, duration, outs, capture_no>>
    /\ UNCHANGED <<treeVars, parseVars, cliVars>>

\* line 25: one more second of time.sleep(duration)
SleepTick ==
    /\ cap_pc = "sleep"
    /\ slept < SleepLength
    /\ slept' = slept + 1
    /\ UNCHANGED <<cap_pc, proc, signal, duration, outs, capture_no, cap_result>>
    /\ UNCHANGED <<treeVars, parseVars, cliVars>>

\* the external process writes one more document to its pipe
ProcWrites ==
    /\ proc = "running"
    /\ cap_pc \in {"sleep", "communicate"}
    /\ outs < MaxOuts
    /\ outs' = outs + 1
    /\ UNCHANGED <<cap_pc, proc, signal, slept, duration, capture_no, cap_result>>
    /\ UNCHANGED <<treeVars, parseVars, cliVars>>

\* the external process exits, of its own accord or on SIGTERM
ProcExits ==
    /\ proc = "running"
    /\ cap_pc \in {"sleep", "communicate"}
    /\ proc' = "exited"
    /\ UNCHANGED <<cap_pc, signal, slept, duration, outs, capture_no, cap_result>>
    /\ UNCHANGED <<treeVars, parseVars, cliVars>>

\* KeyboardInterrupt during time.sleep or proc.communicate: it is a
\* BaseException, which neither "except FileNotFoundError" nor "except
\* Exception" (lines 39-44) catches, and no finally clause stops the process.
Interrupt ==
    /\ cap_pc \in {"sleep", "communicate"}
    /\ cap_pc' = "raised"
    /\ UNCHANGED <<proc, signal, slept, duration, outs, capture_no, cap_result>>
    /\ UNCHANGED <<treeVars, parseVars, cliVars>>

\* line 26: the sleep is over and proc.terminate() sends SIGTERM
Terminate ==
    /\ cap_pc = "sleep"
    /\ slept = SleepLength
    /\ signal' = IF proc = "running" THEN "term" ELSE signal
    /\ cap_pc' = "communicate"
    /\ slept' = 0
    /\ UNCHANGED <<proc, duration, outs, capture_no, cap_result>>
    /\ UNCHANGED <<treeVars, parseVars, cliVars>>

\* line 28: a second of communicate(timeout=1) passes, the process still runs
GraceTick ==
    /\ cap_pc = "communicate"
    /\ proc = "running"
    /\ slept < GraceSeconds
    /\ slept' = slept + 1
    /\ UNCHANGED <<cap_pc, proc, signal, duration, outs, capture_no, cap_result>>
    /\ UNCHANGED <<treeVars, parseVars, cliVars>>

\* lines 28 and 33-38: the process has exited, communicate returns its output
CommunicateReturns ==
    /\ cap_pc = "communicate"
    /\ proc = "exited"
    /\ cap_result' = outs
    /\ cap_pc' = "returned"
    /\ UNCHANGED <<proc, signal, slept, duration, outs, capture_no>>
    /\ UNCHANGED <<treeVars, parseVars, cliVars>>

\* lines 28 and 41-44: communicate waits for the exit and then fails to
\* decode the output as text; run_capture returns ""
CommunicateRaises ==
    /\ cap_pc = "communicate"
    /\ proc = "exited"
    /\ outs > 0
    /\ cap_result' = 0
    /\ cap_pc' = "returned"
    /\ UNCHANGED <<proc, signal, slept, duration, outs, capture_no>>
    /\ UNCHANGED <<treeVars, parseVars, cliVars>>

\* lines 29-31: TimeoutExpired, proc.kill(), and communicate() waits for the
\* killed process
TimeoutKill ==
    /\ cap_pc = "communicate"
    /\ proc = "running"
    /\ slept = GraceSeconds
    /\ signal' = "kill"
    /\ proc' = "exited"
    /\ cap_result' = outs
    /\ cap_pc' = "returned"
    /\ UNCHANGED <<slept, duration, outs, capture_no>>
    /\ UNCHANGED <<treeVars, parseVars, cliVars>>

\* tfs line 188: the second capture starts after the first has returned
NextCapture ==
    /\ cap_pc = "returned"
    /\ capture_no = 1
    /\ capture_no' = 2
    /\ cap_pc' = "start"
    /\ proc' = "none" /\ signal' = "none" /\ slept' = 0 /\ outs' = 0
    /\ cap_result' = -1
    /\ UNCHANGED duration
    /\ UNCHANGED <<treeVars, parseVars, cliVars>>

InitCapture ==
    /\ duration \in 1..MaxDuration
    /\ cap_pc = "start" /\ capture_no = 1
    /\ proc = "none" /\ signal = "none" /\ slept = 0 /\ outs = 0
    /\ cap_result = -1
    /\ TreeIdle /\ ParseIdle /\ CliIdle

NextCap ==
    \/ Popen \/ PopenRaises \/ SleepTick \/ ProcWrites \/ ProcExits \/ Interrupt
    \/ Terminate \/ GraceTick \/ CommunicateReturns \/ CommunicateRaises
    \/ TimeoutKill \/ NextCapture

SpecCapture == InitCapture /\ [][NextCap]_vars

\* ------------------------------------------- topics, can0 and tfs
\* What a command finds when it runs. config: the file is missing, is no
\* valid YAML, is empty (safe_load gives None) or is ok; items: the "topics"
\* list; frames: the filter set the "frames" list gives, NoFilter for an
\* absent or empty list; captured: the duplicate-free edge list that the two
\* captures, parse_transforms and list(set(...)) give.
MaxItems == 2
CliNames == 2
CliEdges == 2
DefaultTolerancePct == 10

ConfigStates == {"missing", "invalid", "empty", "ok"}

\* A topic item: whether it has a name, whether the topic is active, its
\* "type" (absent, matching or not), its "hz": absent, or a target rate, a
\* "tolerance" in percent (0 when the key is absent) and the measured rate
\* (0 when "ros2 topic hz" gave no average).
HzChecks ==
    {[present |-> FALSE, target |-> 0, tolerance |-> 0, actual |-> 0]}
    \cup {[present |-> TRUE, target |-> 10, tolerance |-> t, actual |-> a] :
            t \in {0}, a \in {0, 9, 12}}
    \cup {[present |-> TRUE, target |-> 10, tolerance |-> t, actual |-> a] :
            t \in {50}, a \in {4, 12}}

Items ==
    [name : BOOLEAN, exists : BOOLEAN, type : {"none", "match", "mismatch"},
     hz : HzChecks]

NoEnv ==
    [config |-> "ok", ros2 |-> TRUE, items |-> <<>>, frames |-> NoFilter,
     show_all |-> FALSE, captured |-> <<>>, linux |-> TRUE, iface |-> "up"]

\* test_runner.py line 108: item.get("tolerance", 0.1), in percent
tolerance_of(hz) == IF hz.tolerance = 0 THEN DefaultTolerancePct ELSE hz.tolerance

\* Variant: only the lower end of the tolerance band is checked.
hz_pass_lower_only(hz) ==
    hz.target * (100 - tolerance_of(hz)) <= hz.actual * 100

\* test_runner.py lines 119-122: min_hz <= actual_hz <= max_hz, in hundredths
hz_pass(hz) ==
    /\ hz.target * (100 - tolerance_of(hz)) <= hz.actual * 100
    /\ hz.actual * 100 <= hz.target * (100 + tolerance_of(hz))

\* test_runner.py lines 70-127: what one iteration of the loop adds to
\* total_checks and success_count
check_item(item) ==
    IF ~item.name THEN [total |-> 0, success |-> 0]
    ELSE IF ~item.exists THEN [total |-> 1, success |-> 0]
    ELSE [total |-> 1 + (IF item.type # "none" THEN 1 ELSE 0)
                     + (IF item.hz.present THEN 1 ELSE 0),
          success |-> 1 + (IF item.type = "match" THEN 1 ELSE 0)
                       + (IF item.hz.present /\ hz_pass(item.hz) THEN 1 ELSE 0)]

CliUnchanged == UNCHANGED <<command, env, item_index, success_count, total_checks>>

\* test_runner.py lines 34-36
TopicsConfigMissing ==
    /\ command = "topics" /\ cli_pc = "start"
    /\ env.config = "missing"
    /\ exit_code' = 1 /\ cli_pc' = "exited"
    /\ CliUnchanged /\ UNCHANGED <<treeVars, parseVars, capVars>>

\* test_runner.py lines 39-41
TopicsRos2Missing ==
    /\ command = "topics" /\ cli_pc = "start"
    /\ env.config # "missing" /\ ~env.ros2
    /\ exit_code' = 1 /\ cli_pc' = "exited"
    /\ CliUnchanged /\ UNCHANGED <<treeVars, parseVars, capVars>>

\* test_runner.py lines 43-48
TopicsInvalidYaml ==
    /\ command = "topics" /\ cli_pc = "start"
    /\ env.config = "invalid" /\ env.ros2
    /\ exit_code' = 1 /\ cli_pc' = "exited"
    /\ CliUnchanged /\ UNCHANGED <<treeVars, parseVars, capVars>>

\* test_runner.py line 50: data is None, data.get raises AttributeError,
\* which nothing catches: the interpreter exits with code 1
TopicsEmptyConfig ==
    /\ command = "topics" /\ cli_pc = "start"
    /\ env.config = "empty" /\ env.ros2
    /\ exit_code' = 1 /\ cli_pc' = "exited"
    /\ CliUnchanged /\ UNCHANGED <<treeVars, parseVars, capVars>>

\* test_runner.py lines 50-53
TopicsNoTopics ==
    /\ command = "topics" /\ cli_pc = "start"
    /\ env.config = "ok" /\ env.ros2
    /\ env.items = <<>>
    /\ exit_code' = 0 /\ cli_pc' = "exited"
    /\ CliUnchanged /\ UNCHANGED <<treeVars, parseVars, capVars>>

\* test_runner.py lines 55-68
TopicsBegin ==
    /\ command = "topics" /\ cli_pc = "start"
    /\ env.config = "ok" /\ env.ros2
    /\ env.items # <<>>
    /\ cli_pc' = "loop" /\ item_index' = 1
    /\ success_count' = 0 /\ total_checks' = 0
    /\ UNCHANGED <<command, env, exit_code>>
    /\ UNCHANGED <<treeVars, parseVars, capVars>>

\* test_runner.py lines 70-127
TopicsCheckItem ==
    /\ command = "topics" /\ cli_pc = "loop"
    /\ item_index <= Len(env.items)
    /\ total_checks' = total_checks + check_item(env.items[item_index]).total
    /\ success_count' = success_count + check_item(env.items[item_index]).success
    /\ item_index' = item_index + 1
    /\ UNCHANGED <<command, env, cli_pc, exit_code>>
    /\ UNCHANGED <<treeVars, parseVars, capVars>>

\* test_runner.py lines 129-135
TopicsSummary ==
    /\ command = "topics" /\ cli_pc = "loop"
    /\ item_index > Len(env.items)
    /\ exit_code' = IF success_count = total_checks THEN 0 ELSE 1
    /\ cli_pc' = "exited"
    /\ CliUnchanged /\ UNCHANGED <<treeVars, parseVars, capVars>>

\* test_runner.py lines 140-152
can0_exists == env.linux /\ env.iface # "missing"
can0_is_up == env.linux /\ env.iface = "up"

\* test_runner.py lines 154-162
Can0 ==
    /\ command = "can0" /\ cli_pc = "start"
    /\ exit_code' = IF ~can0_exists \/ ~can0_is_up THEN 1 ELSE 0
    /\ cli_pc' = "exited"
    /\ CliUnchanged /\ UNCHANGED <<treeVars, parseVars, capVars>>

\* visualizer.py lines 165-167
TfsRos2Missing ==
    /\ command = "tfs" /\ cli_pc = "start"
    /\ ~env.ros2
    /\ exit_code' = 1 /\ cli_pc' = "exited"
    /\ CliUnchanged /\ UNCHANGED <<treeVars, parseVars, capVars>>

\* visualizer.py lines 169-182: filter_set stays None with --all, with a
\* missing config ("Showing all."), with a config that raises while it is
\* read (the warning of line 180) and with no frames in it
filter_set ==
    IF ~env.show_all /\ env.config = "ok" THEN env.frames ELSE NoFilter

\* visualizer.py lines 169-200: the config is read, the captures are made
\* and parsed, and build_ascii_tree is called
TfsBuild ==
    /\ command = "tfs" /\ cli_pc = "start"
    /\ env.ros2
    /\ connections' = env.captured
    /\ filter_nodes' = filter_set
    /\ pc' = "start"
    /\ cli_pc' = "build"
    /\ UNCHANGED <<children_map, all_nodes, children_nodes, roots, visual_roots,
                   console, printed, pending, history>>
    /\ UNCHANGED <<command, env, item_index, success_count, total_checks, exit_code>>
    /\ UNCHANGED <<parseVars, capVars>>

\* visualizer.py line 200: build_ascii_tree returns and so does tfs (exit
\* code 0), or its RecursionError ends the interpreter with code 1
TfsExit ==
    /\ command = "tfs" /\ cli_pc = "build"
    /\ pc \in {"returned", "raised"}
    /\ exit_code' = IF pc = "returned" THEN 0 ELSE 1
    /\ cli_pc' = "exited"
    /\ CliUnchanged /\ UNCHANGED <<treeVars, parseVars, capVars>>

InitCli ==
    /\ command \in {"topics", "can0", "tfs"}
    /\ \/ /\ command = "topics"
          /\ \E c \in ConfigStates, r \in BOOLEAN,
                l \in UNION {[1..k -> Items] : k \in 0..MaxItems} :
                \* the items are read from a config that parsed only
                /\ (c # "ok" \/ ~r) => l = <<>>
                /\ env = [NoEnv EXCEPT !.config = c, !.ros2 = r, !.items = l]
       \/ /\ command = "can0"
          /\ \E x \in BOOLEAN, i \in {"missing", "up", "down", "unreadable"} :
                env = [NoEnv EXCEPT !.linux = x, !.iface = i]
       \/ /\ command = "tfs"
          /\ \E c \in ConfigStates, r \in BOOLEAN, a \in BOOLEAN,
                f \in {NoFilter} \cup {FilterOf(S) : S \in SUBSET (1..CliNames)},
                l \in UNION {UniqueLists(k, CliNames) : k \in 0..CliEdges} :
                env = [NoEnv EXCEPT !.config = c, !.ros2 = r, !.show_all = a,
                                    !.frames = f, !.captured = l]
    /\ cli_pc = "start" /\ item_index = 0
    /\ success_count = 0 /\ total_checks = 0 /\ exit_code = -1
    /\ TreeIdle /\ ParseIdle /\ CapIdle

NextCli ==
    \/ TopicsConfigMissing \/ TopicsRos2Missing \/ TopicsInvalidYaml
    \/ TopicsEmptyConfig \/ TopicsNoTopics \/ TopicsBegin \/ TopicsCheckItem
    \/ TopicsSummary \/ Can0 \/ TfsRos2Missing \/ TfsBuild \/ TfsExit
    \/ Next

SpecCli == InitCli /\ [][NextCli]_vars

\* ------------------------------------------------------ claim vocabulary
Done == pc \in {"returned", "raised"}

EdgeSet == SeqRange(connections)
Succ(n) == {e[2] : e \in {x \in EdgeSet : x[1] = n}}
RootCandidates == AllNodesOf(connections) \ ChildrenNodesOf(connections)

RECURSIVE ReachWithin(_, _)
ReachWithin(S, k) ==
    IF k = 0 THEN S ELSE ReachWithin(S \cup UNION {Succ(n) : n \in S}, k - 1)

Acyclic == \A n \in Names : n \notin ReachWithin(Succ(n), MaxNames)

\* The paths of the edge graph that start at p and take at most k more edges.
RECURSIVE PathsFrom(_, _)
PathsFrom(p, k) ==
    IF k = 0 THEN {p}
    ELSE {p} \cup UNION {PathsFrom(Append(p, c), k - 1) : c \in Succ(p[Len(p)])}

GraphPaths == UNION {PathsFrom(<<r>>, MaxNames) : r \in RootCandidates}

\* What a filtered rendering must show: each graph path from a root candidate
\* to a visible node, with its hidden nodes removed.
ExpectedPaths ==
    {SelectSeq(p, is_visible) : p \in {q \in GraphPaths : is_visible(q[Len(q)])}}

\* The label paths of a rendered forest, from a top-level tree downwards.
RECURSIVE TreePaths(_, _)
TreePaths(t, prefix) ==
    LET p == Append(prefix, t.label)
    IN  {p} \cup UNION {TreePaths(t.children[i], p) : i \in DOMAIN t.children}

RenderPaths(forest) == UNION {TreePaths(forest[i], <<>>) : i \in DOMAIN forest}

Labels(forest) == {p[Len(p)] : p \in RenderPaths(forest)}

\* Top-level trees carry the root style, nested nodes the child style.
RECURSIVE NestedStyle(_)
NestedStyle(t) ==
    \A i \in DOMAIN t.children :
        t.children[i].style = "green" /\ NestedStyle(t.children[i])

StylesOk(forest) ==
    \A i \in DOMAIN forest : forest[i].style = "cyan" /\ NestedStyle(forest[i])

\* Siblings in name order at every level.
RECURSIVE SortedTree(_)
SortedTree(t) ==
    /\ \A i \in DOMAIN t.children : \A j \in DOMAIN t.children :
          i < j => t.children[i].label <= t.children[j].label
    /\ \A i \in DOMAIN t.children : SortedTree(t.children[i])

SortedForest(forest) == \A i \in DOMAIN forest : SortedTree(forest[i])

Count(s, x) == Cardinality({i \in DOMAIN s : s[i] = x})
IsPermutation(a, b) ==
    Len(a) = Len(b) /\ \A x \in SeqRange(a) \cup SeqRange(b) : Count(a, x) = Count(b, x)
NoDuplicates(s) == \A i \in DOMAIN s : \A j \in DOMAIN s : s[i] = s[j] => i = j

\* ---------------------------------------------------------------- claims

\* C1: on an acyclic edge set, for every filter, build_ascii_tree returns and
\* the rendered forest shows exactly the visible names, each directly under
\* its nearest visible ancestor on the parent chain, a visible name with no
\* visible ancestor being a top-level root; hidden nodes prune nothing.
C1_FilteredForest ==
    (Done /\ connections # <<>> /\ Acyclic) =>
        /\ pc = "returned"
        /\ RenderPaths(printed) = ExpectedPaths
        /\ StylesOk(printed)

\* Edges (A,B),(A,D),(B,C) with filter {A,C}: root A with C directly beneath.
C1_Witness ==
    /\ pc = "returned"
    /\ connections = <<<<1, 2>>, <<1, 4>>, <<2, 3>>>>
    /\ filter_nodes = FilterOf({1, 3})
    /\ printed = <<[label |-> 1, style |-> "cyan", children |->
                     <<[label |-> 3, style |-> "green", children |-> <<>>]>>]>>

\* C2: every call ends in exactly one of three outcomes and never raises:
\* no edges gives "no data" and no tree; edges and a filter naming none of
\* the present names gives "nothing matched" and no tree; every other input
\* gives at least one tree and neither message.
C2_ThreeOutcomes ==
    Done =>
        /\ pc = "returned"
        /\ connections = <<>> => (console = <<MsgNoData>> /\ printed = <<>>)
        /\ (connections # <<>> /\ ~filter_nodes.is_none
                /\ filter_nodes.names \cap AllNodesOf(connections) = {})
             => (console = <<MsgNoMatch>> /\ printed = <<>>)
        /\ (connections # <<>>
                /\ (filter_nodes.is_none
                    \/ filter_nodes.names \cap AllNodesOf(connections) # {}))
             => (console = <<>> /\ printed # <<>>)

\* C9: build_ascii_tree returns for every edge list and filter, cyclic edge
\* lists included: the recursive walk never exhausts the call stack.
C9_Returns == pc # "raised"

\* C10: when build_ascii_tree returns, every visible name that occurs in
\* some edge appears in the rendered output.
C10_AllVisibleRendered ==
    pc = "returned" =>
        \A n \in AllNodesOf(connections) : is_visible(n) => n \in Labels(printed)

\* C3: on an edge set where every name is a child, one synthetic root is
\* chosen, a second call on the same edge set chooses the same one, and
\* every (visible) name of the edge set is in the rendered output.
C3_SyntheticRoot ==
    (Done /\ history # <<>> /\ connections # <<>> /\ RootCandidates = {}) =>
        /\ Cardinality(roots) = 1
        /\ roots = history[1].roots
        /\ pc = "returned"
        /\ \A n \in AllNodesOf(connections) : is_visible(n) => n \in Labels(printed)

\* C4: siblings and top-level roots are rendered in name order, and two edge
\* lists that are permutations of each other give the same output.
C4_OrderIndependent ==
    (Done /\ history # <<>>) =>
        /\ SortedForest(printed)
        /\ IsPermutation(history[1].input, connections)
              => Outcome = history[1].outcome

\* C5: the output on an edge list with duplicates equals the output on the
\* deduplicated edge set.
C5_DuplicatesCollapse ==
    (Done /\ history # <<>> /\ NoDuplicates(connections)
          /\ SeqRange(connections) = SeqRange(history[1].input))
        => Outcome = history[1].outcome

\* An entry carries both names when it is a mapping whose header is a mapping
\* with a frame_id and which has a child_frame_id.
CarriesBoth(t) ==
    t.is_mapping /\ t.header = "mapping" /\ t.frame_id # 0 /\ t.child_frame_id # 0

RECURSIVE EdgesOfEntries(_, _)
EdgesOfEntries(entries, i) ==
    IF i > Len(entries) THEN <<>>
    ELSE (IF CarriesBoth(entries[i])
          THEN <<<<entries[i].frame_id, entries[i].child_frame_id>>>>
          ELSE <<>>) \o EdgesOfEntries(entries, i + 1)

RECURSIVE EdgesOfChunks(_, _)
EdgesOfChunks(chunks, i) ==
    IF i > Len(chunks) THEN <<>>
    ELSE (IF chunks[i].kind = "mapping" /\ chunks[i].transforms = "list"
          THEN EdgesOfEntries(chunks[i].entries, 1)
          ELSE <<>>) \o EdgesOfChunks(chunks, i + 1)

\* C6: parse_transforms returns exactly the pairs of the entries that carry
\* both names, over every chunk that parses to a mapping; skipped chunks and
\* skipped or malformed entries remove no edge of another chunk or entry.
C6_ExactEdges ==
    parse_pc = "returned" => parsed = EdgesOfChunks(raw_data, 1)

\* C7: whenever run_capture has launched the external process and finishes,
\* by return or by exception, the process is no longer running.
C7_ProcessStopped ==
    cap_pc \in {"returned", "raised"} => proc # "running"

\* What the claim counts as a failure of a run.
CheckFailed(item) ==
    item.name /\ (\/ ~item.exists
                  \/ item.type = "mismatch"
                  \/ /\ item.hz.present
                     /\ LET pct == IF item.hz.tolerance = 0 THEN 10 ELSE item.hz.tolerance
                        IN  \/ item.hz.actual * 100 < item.hz.target * (100 - pct)
                            \/ item.hz.actual * 100 > item.hz.target * (100 + pct))

AnyCheckFailed == \E i \in DOMAIN env.items : CheckFailed(env.items[i])
ConfigBad == env.config \in {"missing", "invalid", "empty"}
InterfaceBad == ~env.linux \/ env.iface # "up"
NoMatchingFrames == MsgNoMatch \in SeqRange(console)

RunFailed ==
    CASE command = "topics" -> ConfigBad \/ ~env.ros2 \/ AnyCheckFailed
      [] command = "can0" -> InterfaceBad
      [] command = "tfs" ->
            ~env.ros2 \/ (~env.show_all /\ ConfigBad) \/ NoMatchingFrames
      [] OTHER -> FALSE

====
